---- MODULE Spec2Model ----
(***************************************************************************)
(* Model of ext/userauth/userauth.c: the login check against the           *)
(* sqlite_user table and the guards of sqlite3_user_add / _change /        *)
(* _delete, on one connection db and the database "main" it has open.      *)
(***************************************************************************)
EXTENDS Integers, Sequences, FiniteSets, TLC

(* ---- bounds of the model ---- *)
NumPasswords == 2

(* ---- UAUTH_* authorization levels (sqliteInt.h), a u8 ---- *)
UAUTH_Unknown == 0
UAUTH_Fail == 1
UAUTH_User == 2
UAUTH_Admin == 3

(* ---- result codes (sqlite3.h) ---- *)
SQLITE_OK == 0
SQLITE_ERROR == 1
SQLITE_BUSY == 5
SQLITE_NOMEM == 7
SQLITE_IOERR == 10
SQLITE_AUTH == 23
SQLITE_ROW == 100
SQLITE_DONE == 101

(* The null pointer. *)
NULL == "NULL"

(* Usernames stored in sqlite_user and passed to authenticate (a table     *)
(* without the name makes it unknown), and usernames a gated call may     *)
(* name as its target.                                                    *)
StoredNames == {"alice", "bob"}
CallNames == StoredNames \cup {"BOB"}
Passwords == {"x" \o ToString(i) : i \in 1..NumPasswords}
AdminFlags == {0, 1}

(* Result codes with which the engine may fail a prepare or a step. *)
EngineErrors == {SQLITE_BUSY, SQLITE_IOERR}

(* Where one call may fail: the two allocations of                         *)
(* sqlite3_user_authenticate, and for each of the two queries the          *)
(* sqlite3_vmprintf, the sqlite3_prepare_v2 and the sqlite3_step.          *)
NoFault == [at |-> "none", rc |-> SQLITE_OK]
QueryFaults ==
  {[at |-> "vmprintf1", rc |-> SQLITE_NOMEM], [at |-> "vmprintf2", rc |-> SQLITE_NOMEM]}
  \cup [at : {"prepare1", "step1", "prepare2", "step2"}, rc : EngineErrors]
AllocFaults ==
  {[at |-> "mprintf", rc |-> SQLITE_NOMEM], [at |-> "malloc", rc |-> SQLITE_NOMEM]}
CheckFaults == {NoFault} \cup QueryFaults
AuthFaults == CheckFaults \cup AllocFaults

VARIABLES hasTable, sqlite_user, auth, last, loggedIn, frame

vars == <<hasTable, sqlite_user, auth, last, loggedIn, frame>>

(* sqlite_crypt(): the stored form of a credential; a one-way function     *)
(* whose value differs from every raw credential.                          *)
sqlite_crypt(zPW) == <<"crypt", zPW>>

(* A row of sqlite_user: (uname, pw, isAdmin). *)
Rows == [uname : StoredNames, pw : {sqlite_crypt(p) : p \in Passwords}, isAdmin : AdminFlags]

(* uname is the table's key: at most one row per username. *)
Tables == {t \in SUBSET Rows : \A r1, r2 \in t : r1.uname = r2.uname => r1 = r2}

(* db->auth right after the connection is created. *)
FreshAuth ==
  [authLevel |-> UAUTH_Unknown, zAuthUser |-> NULL, zAuthPW |-> NULL, nAuthPW |-> 0]

(* The username with its letters folded to lower case. *)
FoldCase(z) == IF z = "BOB" THEN "bob" ELSE z

(* strcmp replaced by a comparison that ignores case (sqlite3_stricmp). *)
stricmp_ne(a, b) == FoldCase(a) # FoldCase(b)

(* strcmp(a, b) != 0 *)
strcmp_ne(a, b) == a # b

(* sqlite3UserAuthPrepare for query n (1: the sqlite_master probe, 2: the  *)
(* sqlite_user lookup): NULL if the SQL text cannot be allocated or        *)
(* sqlite3_prepare_v2 fails, a statement otherwise.                        *)
sqlite3UserAuthPrepare(f, n) ==
  LET zSql == IF f.at = (IF n = 1 THEN "vmprintf1" ELSE "vmprintf2") THEN NULL ELSE "sql"
      rc == IF f.at = (IF n = 1 THEN "prepare1" ELSE "prepare2") THEN f.rc ELSE SQLITE_OK
  IN IF zSql = NULL THEN NULL
     ELSE IF rc # 0 THEN NULL
     ELSE "stmt"

(* sqlite3_step of the probe                                               *)
(*   SELECT 1 FROM main.sqlite_master WHERE name='sqlite_user' ...         *)
StepProbe(f) ==
  IF f.at = "step1" THEN f.rc
  ELSE IF hasTable THEN SQLITE_ROW ELSE SQLITE_DONE

(* The rows the lookup                                                     *)
(*   SELECT pw=sqlite_crypt(?1,pw), isAdmin FROM sqlite_user WHERE uname=?2*)
(* selects for the bound username.                                         *)
LookupRows(a) == {r \in sqlite_user : r.uname = a.zAuthUser}

StepLookup(a, f) ==
  IF f.at = "step2" THEN f.rc
  ELSE IF LookupRows(a) # {} THEN SQLITE_ROW ELSE SQLITE_DONE

(* The lookup without the comparison of the credential: any row of the     *)
(* username counts as a match.                                             *)
LookupMatch_AnyRow(a, r) == 1

(* Column 0 of the lookup's row: pw=sqlite_crypt(?1,pw), with ?1 the blob  *)
(* zAuthPW (SQL NULL, which equals nothing, when zAuthPW is NULL).         *)
LookupMatch(a, r) ==
  IF a.zAuthPW = NULL THEN 0
  ELSE IF r.pw = sqlite_crypt(a.zAuthPW) THEN 1 ELSE 0

(* userAuthCheckLogin without the assignment of UAUTH_Admin when the probe  *)
(* finds no sqlite_user table: *peAuth keeps UAUTH_Unknown.                *)
userAuthCheckLogin_NoTableUnknown(a, f) ==
  LET pStmt1 == sqlite3UserAuthPrepare(f, 1)
      rc1 == StepProbe(f)
      pStmt2 == sqlite3UserAuthPrepare(f, 2)
      rc2 == StepLookup(a, f)
  IN IF pStmt1 = NULL THEN [peAuth |-> UAUTH_Unknown, rc |-> SQLITE_NOMEM, queries |-> 1]
     ELSE IF rc1 = SQLITE_DONE THEN [peAuth |-> UAUTH_Unknown, rc |-> SQLITE_OK, queries |-> 1]
     ELSE IF rc1 # SQLITE_ROW THEN [peAuth |-> UAUTH_Unknown, rc |-> rc1, queries |-> 1]
     ELSE IF a.zAuthUser = NULL THEN [peAuth |-> UAUTH_Fail, rc |-> SQLITE_OK, queries |-> 1]
     ELSE IF pStmt2 = NULL THEN [peAuth |-> UAUTH_Unknown, rc |-> SQLITE_NOMEM, queries |-> 2]
     ELSE IF rc2 = SQLITE_ROW
             /\ LookupMatch(a, CHOOSE r \in LookupRows(a) : TRUE) # 0
          THEN [peAuth |-> ((CHOOSE r \in LookupRows(a) : TRUE).isAdmin + UAUTH_User) % 256,
                rc |-> rc2, queries |-> 2]
          ELSE [peAuth |-> UAUTH_Fail, rc |-> rc2, queries |-> 2]

(* userAuthCheckLogin without the test of db->auth.zAuthUser==0: the       *)
(* lookup runs with a NULL username bound.                                 *)
userAuthCheckLogin_NoCandidateTest(a, f) ==
  LET pStmt1 == sqlite3UserAuthPrepare(f, 1)
      rc1 == StepProbe(f)
      pStmt2 == sqlite3UserAuthPrepare(f, 2)
      rc2 == StepLookup(a, f)
  IN IF pStmt1 = NULL THEN [peAuth |-> UAUTH_Unknown, rc |-> SQLITE_NOMEM, queries |-> 1]
     ELSE IF rc1 = SQLITE_DONE THEN [peAuth |-> UAUTH_Admin, rc |-> SQLITE_OK, queries |-> 1]
     ELSE IF rc1 # SQLITE_ROW THEN [peAuth |-> UAUTH_Unknown, rc |-> rc1, queries |-> 1]
     ELSE IF pStmt2 = NULL THEN [peAuth |-> UAUTH_Unknown, rc |-> SQLITE_NOMEM, queries |-> 2]
     ELSE IF rc2 = SQLITE_ROW
             /\ LookupMatch(a, CHOOSE r \in LookupRows(a) : TRUE) # 0
          THEN [peAuth |-> ((CHOOSE r \in LookupRows(a) : TRUE).isAdmin + UAUTH_User) % 256,
                rc |-> rc2, queries |-> 2]
          ELSE [peAuth |-> UAUTH_Fail, rc |-> rc2, queries |-> 2]

userAuthCheckLogin(a, f) ==
  LET pStmt1 == sqlite3UserAuthPrepare(f, 1)
      rc1 == StepProbe(f)
      pStmt2 == sqlite3UserAuthPrepare(f, 2)
      rc2 == StepLookup(a, f)
  IN IF pStmt1 = NULL THEN [peAuth |-> UAUTH_Unknown, rc |-> SQLITE_NOMEM, queries |-> 1]
     ELSE IF rc1 = SQLITE_DONE THEN [peAuth |-> UAUTH_Admin, rc |-> SQLITE_OK, queries |-> 1]
     ELSE IF rc1 # SQLITE_ROW THEN [peAuth |-> UAUTH_Unknown, rc |-> rc1, queries |-> 1]
     ELSE IF a.zAuthUser = NULL THEN [peAuth |-> UAUTH_Fail, rc |-> SQLITE_OK, queries |-> 1]
     ELSE IF pStmt2 = NULL THEN [peAuth |-> UAUTH_Unknown, rc |-> SQLITE_NOMEM, queries |-> 2]
     ELSE IF rc2 = SQLITE_ROW
             /\ LookupMatch(a, CHOOSE r \in LookupRows(a) : TRUE) # 0
          THEN [peAuth |-> ((CHOOSE r \in LookupRows(a) : TRUE).isAdmin + UAUTH_User) % 256,
                rc |-> rc2, queries |-> 2]
          ELSE [peAuth |-> UAUTH_Fail, rc |-> rc2, queries |-> 2]

(* sqlite3UserAuthCheckLogin without the restore of savedAuthLevel. *)
sqlite3UserAuthCheckLogin_NoRestore(a, f) ==
  LET a1 == [a EXCEPT !.authLevel = UAUTH_Admin]
      r == userAuthCheckLogin(a1, f)
  IN [auth |-> a1, peAuth |-> r.peAuth, rc |-> r.rc, queries |-> r.queries]

sqlite3UserAuthCheckLogin(a, f) ==
  LET savedAuthLevel == a.authLevel
      a1 == [a EXCEPT !.authLevel = UAUTH_Admin]
      r == userAuthCheckLogin(a1, f)
      a2 == [a1 EXCEPT !.authLevel = savedAuthLevel]
  IN [auth |-> a2, peAuth |-> r.peAuth, rc |-> r.rc, queries |-> r.queries]

(* sqlite3_user_authenticate without the memset of db->auth: the old       *)
(* pointers are freed and cleared, nAuthPW keeps the old length.           *)
sqlite3_user_authenticate_NoMemset(a, zUsername, zPW, f) ==
  LET a0 == [authLevel |-> UAUTH_Unknown, zAuthUser |-> NULL, zAuthPW |-> NULL,
             nAuthPW |-> a.nAuthPW]
      a1 == [a0 EXCEPT !.zAuthUser = IF f.at = "mprintf" THEN NULL ELSE zUsername]
      a2 == [a1 EXCEPT !.zAuthPW = IF f.at = "malloc" THEN NULL ELSE zPW]
      a3 == [a2 EXCEPT !.nAuthPW = Len(zPW)]
      r == sqlite3UserAuthCheckLogin(a3, f)
      a4 == [r.auth EXCEPT !.authLevel = r.peAuth]
  IN IF a1.zAuthUser = NULL THEN [auth |-> a1, rc |-> SQLITE_NOMEM, queries |-> 0]
     ELSE IF a2.zAuthPW = NULL THEN [auth |-> a2, rc |-> SQLITE_NOMEM, queries |-> 0]
     ELSE IF r.rc # 0 THEN [auth |-> a4, rc |-> r.rc, queries |-> r.queries]
     ELSE IF r.peAuth < UAUTH_User THEN [auth |-> a4, rc |-> SQLITE_AUTH, queries |-> r.queries]
     ELSE [auth |-> a4, rc |-> SQLITE_OK, queries |-> r.queries]

(* sqlite3_user_authenticate without the reset of db->auth.authLevel       *)
(* before the allocations.                                                 *)
sqlite3_user_authenticate_NoTierReset(a, zUsername, zPW, f) ==
  LET a0 == [authLevel |-> a.authLevel, zAuthUser |-> NULL, zAuthPW |-> NULL, nAuthPW |-> 0]
      a1 == [a0 EXCEPT !.zAuthUser = IF f.at = "mprintf" THEN NULL ELSE zUsername]
      a2 == [a1 EXCEPT !.zAuthPW = IF f.at = "malloc" THEN NULL ELSE zPW]
      a3 == [a2 EXCEPT !.nAuthPW = Len(zPW)]
      r == sqlite3UserAuthCheckLogin(a3, f)
      a4 == [r.auth EXCEPT !.authLevel = r.peAuth]
  IN IF a1.zAuthUser = NULL THEN [auth |-> a1, rc |-> SQLITE_NOMEM, queries |-> 0]
     ELSE IF a2.zAuthPW = NULL THEN [auth |-> a2, rc |-> SQLITE_NOMEM, queries |-> 0]
     ELSE IF r.rc # 0 THEN [auth |-> a4, rc |-> r.rc, queries |-> r.queries]
     ELSE IF r.peAuth < UAUTH_User THEN [auth |-> a4, rc |-> SQLITE_AUTH, queries |-> r.queries]
     ELSE [auth |-> a4, rc |-> SQLITE_OK, queries |-> r.queries]

sqlite3_user_authenticate(a, zUsername, zPW, f) ==
  LET a0 == [authLevel |-> UAUTH_Unknown, zAuthUser |-> NULL, zAuthPW |-> NULL, nAuthPW |-> 0]
      a1 == [a0 EXCEPT !.zAuthUser = IF f.at = "mprintf" THEN NULL ELSE zUsername]
      a2 == [a1 EXCEPT !.zAuthPW = IF f.at = "malloc" THEN NULL ELSE zPW]
      a3 == [a2 EXCEPT !.nAuthPW = Len(zPW)]
      r == sqlite3UserAuthCheckLogin(a3, f)
      a4 == [r.auth EXCEPT !.authLevel = r.peAuth]
  IN IF a1.zAuthUser = NULL THEN [auth |-> a1, rc |-> SQLITE_NOMEM, queries |-> 0]
     ELSE IF a2.zAuthPW = NULL THEN [auth |-> a2, rc |-> SQLITE_NOMEM, queries |-> 0]
     ELSE IF r.rc # 0 THEN [auth |-> a4, rc |-> r.rc, queries |-> r.queries]
     ELSE IF r.peAuth < UAUTH_User THEN [auth |-> a4, rc |-> SQLITE_AUTH, queries |-> r.queries]
     ELSE [auth |-> a4, rc |-> SQLITE_OK, queries |-> r.queries]

(* sqlite3_user_add without its guard. *)
sqlite3_user_add_NoGuard(a, zUsername, isAdmin, aPW) == SQLITE_OK

sqlite3_user_add(a, zUsername, isAdmin, aPW) ==
  IF a.authLevel < UAUTH_Admin THEN SQLITE_ERROR ELSE SQLITE_OK

sqlite3_user_change(a, zUsername, isAdmin, aPW) ==
  IF a.authLevel < UAUTH_User THEN SQLITE_ERROR
  ELSE IF strcmp_ne(a.zAuthUser, zUsername) /\ a.authLevel < UAUTH_Admin THEN SQLITE_ERROR
  ELSE SQLITE_OK

(* sqlite3_user_delete with the guard of sqlite3_user_change's first line  *)
(* (UAUTH_User in place of UAUTH_Admin).                                   *)
sqlite3_user_delete_UserGuard(a, zUsername) ==
  IF a.authLevel < UAUTH_User THEN SQLITE_ERROR ELSE SQLITE_OK

sqlite3_user_delete(a, zUsername) ==
  IF a.authLevel < UAUTH_Admin THEN SQLITE_ERROR ELSE SQLITE_OK

(* The last call made on the connection, and what it returned: its         *)
(* arguments, where the engine failed it (fault) and with which code (err),*)
(* how many of the two queries it came to prepare, and, for an             *)
(* authenticate, whether the call before it was an authenticate with       *)
(* another username or credential (reauth).                                *)
NoCall ==
  [op |-> "none", zUsername |-> NULL, zPW |-> NULL, isAdmin |-> 0,
   fault |-> "none", err |-> SQLITE_OK, queries |-> 0, reauth |-> FALSE,
   rc |-> SQLITE_OK, peAuth |-> UAUTH_Unknown]

(* No sqlite3_user_authenticate is in progress on the connection. *)
NoFrame ==
  [pc |-> "idle", zUsername |-> NULL, zPW |-> NULL, fault |-> NoFault,
   savedAuthLevel |-> UAUTH_Unknown, accepted |-> FALSE]

Init ==
  /\ hasTable \in BOOLEAN
  /\ sqlite_user \in (IF hasTable THEN Tables ELSE {{}})
  /\ auth = FreshAuth
  /\ last = NoCall
  /\ loggedIn = FALSE
  /\ frame = NoFrame

Call_check_login(f) ==
  LET r == sqlite3UserAuthCheckLogin(auth, f)
  IN /\ auth' = r.auth
     /\ last' = [NoCall EXCEPT !.op = "check_login", !.fault = f.at, !.err = f.rc,
                               !.queries = r.queries, !.rc = r.rc, !.peAuth = r.peAuth]
     /\ UNCHANGED <<hasTable, sqlite_user, loggedIn, frame>>

Call_authenticate(zUsername, zPW, f) ==
  LET r == sqlite3_user_authenticate(auth, zUsername, zPW, f)
  IN /\ auth' = r.auth
     /\ last' = [NoCall EXCEPT !.op = "authenticate", !.zUsername = zUsername,
                               !.zPW = zPW, !.fault = f.at, !.err = f.rc,
                               !.queries = r.queries, !.rc = r.rc,
                               !.reauth = (/\ last.op = "authenticate"
                                           /\ <<last.zUsername, last.zPW>> # <<zUsername, zPW>>)]
     /\ loggedIn' = (loggedIn \/ (r.rc = SQLITE_OK /\ r.auth.authLevel >= UAUTH_User))
     /\ UNCHANGED <<hasTable, sqlite_user, frame>>

(* sqlite3_user_add that, once accepted, installs the added user as the    *)
(* connection's candidate.                                                 *)
Call_user_add_LogsIn(zUsername, isAdmin, aPW) ==
  LET rc == sqlite3_user_add(auth, zUsername, isAdmin, aPW)
  IN /\ last' = [NoCall EXCEPT !.op = "add", !.zUsername = zUsername,
                               !.isAdmin = isAdmin, !.rc = rc]
     /\ auth' = IF rc = SQLITE_OK
                THEN [auth EXCEPT !.zAuthUser = zUsername, !.zAuthPW = aPW]
                ELSE auth
     /\ UNCHANGED <<hasTable, sqlite_user, loggedIn, frame>>

Call_user_add(zUsername, isAdmin, aPW) ==
  /\ last' = [NoCall EXCEPT !.op = "add", !.zUsername = zUsername,
                            !.isAdmin = isAdmin,
                            !.rc = sqlite3_user_add(auth, zUsername, isAdmin, aPW)]
  /\ UNCHANGED <<hasTable, sqlite_user, auth, loggedIn, frame>>

Call_user_change(zUsername, isAdmin, aPW) ==
  /\ last' = [NoCall EXCEPT !.op = "change", !.zUsername = zUsername,
                            !.isAdmin = isAdmin,
                            !.rc = sqlite3_user_change(auth, zUsername, isAdmin, aPW)]
  /\ UNCHANGED <<hasTable, sqlite_user, auth, loggedIn, frame>>

Call_user_delete(zUsername) ==
  /\ last' = [NoCall EXCEPT !.op = "delete", !.zUsername = zUsername,
                            !.rc = sqlite3_user_delete(auth, zUsername)]
  /\ UNCHANGED <<hasTable, sqlite_user, auth, loggedIn, frame>>

Next ==
  \/ \E f \in CheckFaults : Call_check_login(f)
  \/ \E u \in StoredNames, p \in Passwords, f \in AuthFaults :
       Call_authenticate(u, p, f)
  \/ \E u \in CallNames, b \in AdminFlags, p \in Passwords :
       Call_user_add(u, b, p)
  \/ \E u \in CallNames, b \in AdminFlags, p \in Passwords :
       Call_user_change(u, b, p)
  \/ \E u \in CallNames : Call_user_delete(u)

Spec == Init /\ [][Next]_vars

(***************************************************************************)
(* The gated calls with the mutation they delegate to the SQL engine.      *)
(* userauth.c holds only the guards; the INSERT, UPDATE and DELETE on      *)
(* sqlite_user are the engine's, applied when the guard returns SQLITE_OK. *)
(***************************************************************************)

(* INSERT INTO sqlite_user: on a database without the table the table is   *)
(* created and the added user is made an administrator; a username already *)
(* stored is not inserted again (uname is the key).                        *)
ApplyAdd(zUsername, isAdmin, aPW) ==
  IF ~hasTable
    THEN {[uname |-> zUsername, pw |-> sqlite_crypt(aPW), isAdmin |-> 1]}
  ELSE IF \E r \in sqlite_user : r.uname = zUsername THEN sqlite_user
  ELSE sqlite_user \cup {[uname |-> zUsername, pw |-> sqlite_crypt(aPW), isAdmin |-> isAdmin]}

(* UPDATE sqlite_user SET pw, isAdmin WHERE uname = zUsername *)
ApplyChange(zUsername, isAdmin, aPW) ==
  {IF r.uname = zUsername
     THEN [uname |-> zUsername, pw |-> sqlite_crypt(aPW), isAdmin |-> isAdmin]
     ELSE r : r \in sqlite_user}

(* DELETE FROM sqlite_user WHERE uname = zUsername *)
ApplyDelete(zUsername) == {r \in sqlite_user : r.uname # zUsername}

InitMut ==
  /\ hasTable = FALSE
  /\ sqlite_user = {}
  /\ auth = FreshAuth
  /\ last = NoCall
  /\ loggedIn = FALSE
  /\ frame = NoFrame

Gated_user_add(zUsername, isAdmin, aPW) ==
  LET rc == sqlite3_user_add(auth, zUsername, isAdmin, aPW)
  IN /\ last' = [NoCall EXCEPT !.op = "add", !.zUsername = zUsername,
                               !.isAdmin = isAdmin, !.rc = rc]
     /\ hasTable' = (hasTable \/ rc = SQLITE_OK)
     /\ sqlite_user' = IF rc = SQLITE_OK THEN ApplyAdd(zUsername, isAdmin, aPW)
                       ELSE sqlite_user
     /\ UNCHANGED <<auth, loggedIn, frame>>

Gated_user_change(zUsername, isAdmin, aPW) ==
  LET rc == sqlite3_user_change(auth, zUsername, isAdmin, aPW)
  IN /\ last' = [NoCall EXCEPT !.op = "change", !.zUsername = zUsername,
                               !.isAdmin = isAdmin, !.rc = rc]
     /\ sqlite_user' = IF rc = SQLITE_OK THEN ApplyChange(zUsername, isAdmin, aPW)
                       ELSE sqlite_user
     /\ UNCHANGED <<hasTable, auth, loggedIn, frame>>

Gated_user_delete(zUsername) ==
  LET rc == sqlite3_user_delete(auth, zUsername)
  IN /\ last' = [NoCall EXCEPT !.op = "delete", !.zUsername = zUsername, !.rc = rc]
     /\ sqlite_user' = IF rc = SQLITE_OK THEN ApplyDelete(zUsername) ELSE sqlite_user
     /\ UNCHANGED <<hasTable, auth, loggedIn, frame>>

NextMut ==
  \/ \E f \in CheckFaults : Call_check_login(f)
  \/ \E u \in StoredNames, p \in Passwords, f \in AuthFaults : Call_authenticate(u, p, f)
  \/ \E u \in StoredNames, b \in AdminFlags, p \in Passwords : Gated_user_add(u, b, p)
  \/ \E u \in CallNames : Gated_user_delete(u)
  \/ \E u \in CallNames, b \in AdminFlags, p \in Passwords : Gated_user_change(u, b, p)

SpecMut == InitMut /\ [][NextMut]_vars

(***************************************************************************)
(* The isAdmin column holds an integer: databases whose one account has    *)
(* another value than 0 or 1 in it.                                        *)
(***************************************************************************)
WideFlags == {0, 1, 2, 254}

WideRows ==
  [uname : StoredNames, pw : {sqlite_crypt(p) : p \in Passwords}, isAdmin : WideFlags]

InitWide ==
  /\ hasTable = TRUE
  /\ sqlite_user \in {{r} : r \in WideRows}
  /\ auth = FreshAuth
  /\ last = NoCall
  /\ loggedIn = FALSE
  /\ frame = NoFrame

SpecWide == InitWide /\ [][Next]_vars

(***************************************************************************)
(* sqlite3_user_authenticate in two steps, with calls on the same          *)
(* connection between them: the engine runs the two queries while          *)
(* db->auth.authLevel is UAUTH_Admin, and a callback it invokes (or        *)
(* another thread holding the handle) may call sqlite3_user_add or         *)
(* sqlite3_user_delete then.                                               *)
(***************************************************************************)

(* Lines 138-148 of sqlite3_user_authenticate and the save and elevation   *)
(* of sqlite3UserAuthCheckLogin (lines 111-112).                           *)
Auth_enter(zUsername, zPW, f) ==
  LET a0 == [authLevel |-> UAUTH_Unknown, zAuthUser |-> NULL, zAuthPW |-> NULL, nAuthPW |-> 0]
      a1 == [a0 EXCEPT !.zAuthUser = IF f.at = "mprintf" THEN NULL ELSE zUsername]
      a2 == [a1 EXCEPT !.zAuthPW = IF f.at = "malloc" THEN NULL ELSE zPW]
      a3 == [a2 EXCEPT !.nAuthPW = Len(zPW)]
      returned == [NoCall EXCEPT !.op = "authenticate", !.zUsername = zUsername,
                                 !.zPW = zPW, !.fault = f.at, !.err = f.rc,
                                 !.rc = SQLITE_NOMEM]
  IN /\ frame.pc = "idle"
     /\ IF a1.zAuthUser = NULL
          THEN auth' = a1 /\ last' = returned /\ frame' = NoFrame
        ELSE IF a2.zAuthPW = NULL
          THEN auth' = a2 /\ last' = returned /\ frame' = NoFrame
        ELSE /\ auth' = [a3 EXCEPT !.authLevel = UAUTH_Admin]
             /\ frame' = [pc |-> "check", zUsername |-> zUsername, zPW |-> zPW,
                          fault |-> f, savedAuthLevel |-> a3.authLevel,
                          accepted |-> FALSE]
             /\ last' = last
     /\ UNCHANGED <<hasTable, sqlite_user, loggedIn>>

(* The rest: userAuthCheckLogin, the restore of the saved level (line 114) *)
(* and lines 150-157.                                                      *)
Auth_leave ==
  LET r == userAuthCheckLogin(auth, frame.fault)
      a1 == [auth EXCEPT !.authLevel = frame.savedAuthLevel]
      a2 == [a1 EXCEPT !.authLevel = r.peAuth]
      rc == IF r.rc # 0 THEN r.rc
            ELSE IF r.peAuth < UAUTH_User THEN SQLITE_AUTH
            ELSE SQLITE_OK
  IN /\ frame.pc = "check"
     /\ auth' = a2
     /\ last' = [NoCall EXCEPT !.op = "authenticate", !.zUsername = frame.zUsername,
                               !.zPW = frame.zPW, !.fault = frame.fault.at,
                               !.err = frame.fault.rc, !.queries = r.queries, !.rc = rc]
     /\ loggedIn' = (loggedIn \/ (rc = SQLITE_OK /\ r.peAuth >= UAUTH_User))
     /\ frame' = [NoFrame EXCEPT !.accepted = frame.accepted]
     /\ UNCHANGED <<hasTable, sqlite_user>>

(* sqlite3_user_add at any moment; frame.accepted notes an acceptance      *)
(* between the two steps of an authenticate.                               *)
Step_user_add(zUsername, isAdmin, aPW) ==
  LET rc == sqlite3_user_add(auth, zUsername, isAdmin, aPW)
  IN /\ last' = [NoCall EXCEPT !.op = "add", !.zUsername = zUsername,
                               !.isAdmin = isAdmin, !.rc = rc]
     /\ frame' = [frame EXCEPT !.accepted = @ \/ (frame.pc = "check" /\ rc = SQLITE_OK)]
     /\ UNCHANGED <<hasTable, sqlite_user, auth, loggedIn>>

Step_user_delete(zUsername) ==
  LET rc == sqlite3_user_delete(auth, zUsername)
  IN /\ last' = [NoCall EXCEPT !.op = "delete", !.zUsername = zUsername, !.rc = rc]
     /\ frame' = [frame EXCEPT !.accepted = @ \/ (frame.pc = "check" /\ rc = SQLITE_OK)]
     /\ UNCHANGED <<hasTable, sqlite_user, auth, loggedIn>>

NextStep ==
  \/ \E u \in StoredNames, p \in Passwords, f \in AuthFaults : Auth_enter(u, p, f)
  \/ Auth_leave
  \/ \E u \in CallNames, b \in AdminFlags, p \in Passwords : Step_user_add(u, b, p)
  \/ \E u \in CallNames : Step_user_delete(u)

SpecStep == Init /\ [][NextStep]_vars

(***************************************************************************)
(* Properties                                                              *)
(***************************************************************************)

(* The faults that stop a login check before the probe of sqlite_master    *)
(* has answered.                                                           *)
ProbeFaultPoints == {"mprintf", "malloc", "vmprintf1", "prepare1", "step1"}

GatedOps == {"add", "change", "delete"}

(* The rows of sqlite_user that hold username u with the stored form of    *)
(* credential p.                                                           *)
MatchingRows(u, p) == {r \in sqlite_user : r.uname = u /\ r.pw = sqlite_crypt(p)}

(* C1, as stated: on a database without the sqlite_user table every        *)
(* check_login reports (UAUTH_Admin, SQLITE_OK) and every authenticate     *)
(* returns SQLITE_OK and commits UAUTH_Admin, whatever the candidate.      *)
C1_NoTableAlwaysAdmin ==
  ~hasTable =>
    /\ last.op = "check_login" => (last.peAuth = UAUTH_Admin /\ last.rc = SQLITE_OK)
    /\ last.op = "authenticate" => (last.rc = SQLITE_OK /\ auth.authLevel = UAUTH_Admin)

(* C1, amended: the same, for the calls in which the two allocations of    *)
(* authenticate succeed and the probe of sqlite_master is prepared and     *)
(* stepped without an engine failure.                                      *)
C1_NoTableAdminUnlessProbeFails ==
  (~hasTable /\ last.fault \notin ProbeFaultPoints) =>
    /\ last.op = "check_login" => (last.peAuth = UAUTH_Admin /\ last.rc = SQLITE_OK)
    /\ last.op = "authenticate" => (last.rc = SQLITE_OK /\ auth.authLevel = UAUTH_Admin)

(* C1 witness: check_login on a connection with no candidate at all, on a  *)
(* database without the table, has reported UAUTH_Admin.                   *)
C1_Witness ==
  /\ ~hasTable
  /\ last.op = "check_login"
  /\ auth.zAuthUser = NULL
  /\ last.peAuth = UAUTH_Admin
  /\ last.rc = SQLITE_OK

(* C2: with the table present and no failure during the call, the tier     *)
(* authenticate(u, p) commits is UAUTH_Admin exactly when a row for u      *)
(* matches p and has isAdmin set, UAUTH_User exactly when such a row has   *)
(* isAdmin clear, and UAUTH_Fail exactly when no row for u matches p.      *)
C2_TierFromRecord ==
  (last.op = "authenticate" /\ hasTable /\ last.fault = "none") =>
    LET m == MatchingRows(last.zUsername, last.zPW)
    IN /\ auth.authLevel = UAUTH_Admin <=> (\E r \in m : r.isAdmin # 0)
       /\ auth.authLevel = UAUTH_User <=> (\E r \in m : r.isAdmin = 0)
       /\ auth.authLevel = UAUTH_Fail <=> (m = {})

(* C2 witness: a login with the wrong credential for a stored              *)
(* administrator has committed UAUTH_Fail.                                 *)
C2_Witness ==
  /\ last.op = "authenticate" /\ hasTable /\ last.fault = "none"
  /\ \E r \in sqlite_user :
       r.uname = last.zUsername /\ r.isAdmin = 1 /\ r.pw # sqlite_crypt(last.zPW)
  /\ auth.authLevel = UAUTH_Fail

(* C3: an authenticate that reaches its commit returns SQLITE_OK if and    *)
(* only if the committed tier is at least UAUTH_User, and with the table   *)
(* present and no engine failure a rejected login returns SQLITE_AUTH.     *)
C3_OkIffTierAtLeastUser ==
  (last.op = "authenticate" /\ last.fault \notin {"mprintf", "malloc"}) =>
    /\ last.rc = SQLITE_OK <=> auth.authLevel >= UAUTH_User
    /\ (hasTable /\ last.fault = "none" /\ auth.authLevel < UAUTH_User)
         => last.rc = SQLITE_AUTH

(* C4: sqlite3_user_delete of the connection's own username is rejected,   *)
(* at every tier.                                                          *)
C4_SelfDeleteRejected ==
  (last.op = "delete" /\ last.zUsername = auth.zAuthUser) => last.rc # SQLITE_OK

(* C5: whenever the sqlite_user table exists it holds at least one row     *)
(* with isAdmin set.                                                       *)
C5_AlwaysAnAdmin ==
  hasTable => \E r \in sqlite_user : r.isAdmin # 0

(* C6: on a database without the table sqlite3_user_add succeeds for any   *)
(* caller, a connection that never called authenticate included.           *)
C6_BootstrapAddSucceeds ==
  (~hasTable /\ last.op = "add") => last.rc = SQLITE_OK

C8_NoSelfAdminChange ==
  (/\ last.op = "change"
   /\ last.zUsername = auth.zAuthUser
   /\ \E r \in sqlite_user : r.uname = last.zUsername /\ r.isAdmin # last.isAdmin)
    => last.rc # SQLITE_OK

(* C9: on a database with the table, a gated call returns SQLITE_OK only   *)
(* if an earlier authenticate on the connection returned SQLITE_OK with a  *)
(* tier of at least UAUTH_User.                                            *)
C9_GatedNeedsSuccessfulLogin ==
  (hasTable /\ last.op \in GatedOps /\ last.rc = SQLITE_OK) => loggedIn

(* C10: sqlite3_user_add and sqlite3_user_delete are rejected at every     *)
(* tier below UAUTH_Admin and accepted only at UAUTH_Admin.                *)
C10_AddDeleteAdminOnly ==
  last.op \in {"add", "delete"} =>
    /\ auth.authLevel < UAUTH_Admin => last.rc = SQLITE_ERROR
    /\ last.rc = SQLITE_OK => auth.authLevel = UAUTH_Admin

(* C10 witness: a UAUTH_User connection has been refused a delete.         *)
C10_Witness ==
  /\ last.op = "delete"
  /\ auth.authLevel = UAUTH_User
  /\ last.rc = SQLITE_ERROR

(***************************************************************************)
(* Properties of error reporting, state replacement and the gated calls.   *)
(***************************************************************************)

(* The last call ran a query that failed: the probe of sqlite_master, or   *)
(* the lookup when the call got as far as the lookup.                      *)
QueryFailed ==
  \/ last.fault \in {"vmprintf1", "prepare1", "step1"}
  \/ last.fault \in {"vmprintf2", "prepare2", "step2"} /\ last.queries = 2

(* The caller's tier does not meet the tier the last gated call requires.  *)
InsufficientTier ==
  \/ last.op \in {"add", "delete"} /\ auth.authLevel < UAUTH_Admin
  \/ /\ last.op = "change"
     /\ \/ auth.authLevel < UAUTH_User
        \/ auth.authLevel < UAUTH_Admin /\ auth.zAuthUser # last.zUsername

(* C11: when a query of the credential check fails in the engine, the      *)
(* check reports a non-OK status with tier Unknown, and a login attempt    *)
(* does not leave the connection at tier Fail.                             *)
C11_EngineFailureNeverFail ==
  (last.op \in {"check_login", "authenticate"} /\ QueryFailed) =>
     /\ last.op = "check_login" => (last.peAuth = UAUTH_Unknown /\ last.rc # SQLITE_OK)
     /\ last.op = "authenticate" => auth.authLevel # UAUTH_Fail

(* C12: a login attempt replaces the whole authentication state: what the  *)
(* connection holds afterwards is what the same attempt yields on a        *)
(* connection that never logged in.                                        *)
C12_FullReplacement ==
  last.op = "authenticate" =>
     LET r == sqlite3_user_authenticate(FreshAuth, last.zUsername, last.zPW,
                                        [at |-> last.fault, rc |-> last.err])
     IN auth = r.auth /\ last.rc = r.rc

C12_Witness ==
  /\ last.op = "authenticate"
  /\ last.reauth
  /\ last.fault = "none"
  /\ hasTable
  /\ auth.authLevel = UAUTH_User

C15_CheckRestoresTier ==
  [][last'.op = "check_login" => auth'.authLevel = auth.authLevel]_vars

C15_Witness ==
  /\ last.op = "check_login"
  /\ auth.authLevel = UAUTH_User
  /\ last.peAuth = UAUTH_Fail

(* C16: with a user table and no candidate username the check reports      *)
(* (Fail, OK) and never runs the lookup.                                   *)
C16_NoCandidateFail ==
  (hasTable /\ last.op = "check_login" /\ auth.zAuthUser = NULL) =>
     (last.peAuth = UAUTH_Fail /\ last.rc = SQLITE_OK /\ last.queries = 1)

(* C16 as the code has it: the same, provided the probe of sqlite_master   *)
(* itself did not fail.                                                    *)
C16_NoCandidateFailUnlessProbeFails ==
  (/\ hasTable
   /\ last.op = "check_login"
   /\ auth.zAuthUser = NULL
   /\ last.fault \notin {"vmprintf1", "prepare1", "step1"}) =>
     (last.peAuth = UAUTH_Fail /\ last.rc = SQLITE_OK /\ last.queries = 1)

C16_Witness ==
  /\ hasTable
  /\ last.op = "check_login"
  /\ auth.zAuthUser = NULL
  /\ last.fault = "prepare2"
  /\ last.peAuth = UAUTH_Fail
  /\ last.rc = SQLITE_OK
  /\ last.queries = 1

(* C17: the status of a failed query is handed to the caller unchanged.    *)
C17_ErrorVerbatim ==
  (last.op \in {"check_login", "authenticate"} /\ QueryFailed) => last.rc = last.err

(* C18: the connection's tier is one of the four tiers, whatever integer   *)
(* the matching record's isAdmin column holds.                             *)
C18_TierInRange ==
  auth.authLevel \in {UAUTH_Unknown, UAUTH_Fail, UAUTH_User, UAUTH_Admin}

(* C19: a connection at tier User or above has a candidate username, also  *)
(* after a login attempt that ran out of memory.                           *)
C19_TierImpliesUser ==
  auth.authLevel >= UAUTH_User => auth.zAuthUser # NULL

C19_Witness ==
  /\ last.op = "authenticate"
  /\ last.fault = "mprintf"
  /\ loggedIn
  /\ auth.authLevel = UAUTH_Unknown
  /\ auth.zAuthUser = NULL

(* C20: the Admin tier held while the credential check runs never          *)
(* authorizes a gated call: a call accepted during a login attempt is one  *)
(* the attempt's own outcome authorizes.                                   *)
C20_ElevationNeverAuthorizes ==
  (frame.pc = "idle" /\ frame.accepted) => auth.authLevel = UAUTH_Admin

====
